---- MODULE Spec2Model ----
(***************************************************************************)
(* Model of sdre-rust-logging (src/src/lib.rs): the SetupLogging trait,    *)
(* its four implementations (&str, String, usize, u8) and set_builder,     *)
(* which installs an env_logger sink with a custom line format.            *)
(*                                                                         *)
(* Text is modelled as sequences of one-character strings, so that case    *)
(* folding, padding and timestamp formatting are computed, not assumed.    *)
(***************************************************************************)
EXTENDS Integers, Sequences, FiniteSets, TLC

VARIABLES
    indicator,   \* the verbosity indicator handed to set_logging_level
    result,      \* the LevelFilter it returned, or Unset before the call
    pc,          \* per thread: where it is inside enable_logging / a log call
    loglevel,    \* per thread: the local `loglevel` of enable_logging
    logger,      \* the process-wide logger (log crate's LOGGER), or NoLogger
    max_level,   \* the process-wide log::max_level()
    buf,         \* per thread: the formatter's buffer of the record in flight
    written,     \* per thread: how much of buf has reached stderr
    stderr_lock, \* the thread holding the lock of stderr, NoThread when free
    out,         \* what has been written to stderr
    style,       \* whether the destination supports ANSI styling
    alive,       \* the process has not been brought down by a panic
    calls,       \* history: the log calls made so far, each with the indicator
                 \* of the enable_logging call that had returned before it
    returned,    \* history: indicators of enable_logging calls that returned
    arg,         \* per thread: the indicator of the enable_logging call in progress
    nenable      \* history: number of enable_logging calls started

vars == <<indicator, result, pc, loglevel, logger, max_level, buf, written,
          stderr_lock, out, style, alive, calls, returned, arg, nenable>>

loggerVars == <<pc, loglevel, logger, max_level, buf, written, stderr_lock,
                out, style, alive, calls, returned, arg, nenable>>

(***************************************************************************)
(* Bounds of the model.                                                    *)
(***************************************************************************)
MaxSmallUsize == 8
MaxLogs == 2
MaxEnables == 2
WriteChunk == 16

(***************************************************************************)
(* log::LevelFilter and log::Level.                                        *)
(***************************************************************************)
Unset == "Unset"
Levels == {"Error", "Warn", "Info", "Debug", "Trace"}
LevelFilters == Levels \cup {"Off"}

\* The discriminants of log::LevelFilter / log::Level, which order them.
LevelNum(l) ==
    CASE l = "Off" -> 0
      [] l = "Error" -> 1
      [] l = "Warn" -> 2
      [] l = "Info" -> 3
      [] l = "Debug" -> 4
      [] l = "Trace" -> 5

(***************************************************************************)
(* Text helpers.                                                           *)
(***************************************************************************)
LowerLetters == <<"a", "b", "c", "d", "e", "f", "g", "h", "i", "j", "k", "l", "m",
                  "n", "o", "p", "q", "r", "s", "t", "u", "v", "w", "x", "y", "z">>
UpperLetters == <<"A", "B", "C", "D", "E", "F", "G", "H", "I", "J", "K", "L", "M",
                  "N", "O", "P", "Q", "R", "S", "T", "U", "V", "W", "X", "Y", "Z">>

IndexIn(c, letters) == CHOOSE i \in 1..Len(letters) : letters[i] = c
IsIn(c, letters) == \E i \in 1..Len(letters) : letters[i] = c

\* char::to_lowercase: one character to the characters of its lower case.
\* ASCII upper-case letters fold to their lower-case letter; U+0130 folds to
\* "i" followed by a combining dot, U+212A (Kelvin sign) folds to "k";
\* everything else is unchanged.
LowerChar(c) ==
    IF IsIn(c, UpperLetters) THEN <<LowerLetters[IndexIn(c, UpperLetters)]>>
    ELSE IF c = "U+0130" THEN <<"i", "U+0307">>
    ELSE IF c = "U+212A" THEN <<"k">>
    ELSE <<c>>

RECURSIVE to_lowercase(_)
to_lowercase(s) ==
    IF s = <<>> THEN <<>> ELSE LowerChar(Head(s)) \o to_lowercase(Tail(s))

(***************************************************************************)
(* set_logging_level, one operator per impl block.                         *)
(***************************************************************************)
MatchName(s) ==
    CASE s = <<"e", "r", "r", "o", "r">> -> "Error"
      [] s = <<"w", "a", "r", "n">> -> "Warn"
      [] s = <<"i", "n", "f", "o">> -> "Info"
      [] s = <<"d", "e", "b", "u", "g">> -> "Debug"
      [] s = <<"t", "r", "a", "c", "e">> -> "Trace"
      [] OTHER -> "Info"

\* Mutant: the match without the case folding.
set_logging_level_str_NoFold(s) == MatchName(s)

set_logging_level_str(s) == MatchName(to_lowercase(s))

set_logging_level_String(s) == MatchName(to_lowercase(s))

\* Mutant: the 0-based three-bucket mapping of an earlier revision.
set_logging_level_usize_Stale(i) ==
    CASE i = 0 -> "Info"
      [] i = 1 -> "Debug"
      [] OTHER -> "Trace"

set_logging_level_usize(i) ==
    CASE i = 1 -> "Error"
      [] i = 2 -> "Warn"
      [] i = 3 -> "Info"
      [] i = 4 -> "Debug"
      [] i = 5 -> "Trace"
      [] OTHER -> "Info"

\* Mutant: two arms exchanged.
set_logging_level_u8_Swapped(i) ==
    CASE i = 1 -> "Warn"
      [] i = 2 -> "Error"
      [] i = 3 -> "Info"
      [] i = 4 -> "Debug"
      [] i = 5 -> "Trace"
      [] OTHER -> "Info"

\* Mutant: values above the table saturate at the most verbose level.
set_logging_level_u8_Saturating(i) ==
    CASE i = 1 -> "Error"
      [] i = 2 -> "Warn"
      [] i = 3 -> "Info"
      [] i = 4 -> "Debug"
      [] i = 5 -> "Trace"
      [] i = 0 -> "Info"
      [] OTHER -> "Trace"

set_logging_level_u8(i) ==
    CASE i = 1 -> "Error"
      [] i = 2 -> "Warn"
      [] i = 3 -> "Info"
      [] i = 4 -> "Debug"
      [] i = 5 -> "Trace"
      [] OTHER -> "Info"

\* Trait dispatch on the indicator's type.
set_logging_level(ind) ==
    CASE ind.kind = "u8" -> set_logging_level_u8(ind.val)
      [] ind.kind = "usize" -> set_logging_level_usize(ind.val)
      [] ind.kind = "str" -> set_logging_level_str(ind.val)
      [] ind.kind = "String" -> set_logging_level_String(ind.val)

(***************************************************************************)
(* Inputs of the resolver.                                                 *)
(***************************************************************************)
U8 == 0..255
\* usize is sampled: the small values, the u8 boundary and large values (the
\* largest integer TLC represents stands for the type's maximum).
Usize == (0..MaxSmallUsize) \cup {255, 256, 65536, 2147483647}

LevelWords == { <<"e", "r", "r", "o", "r">>, <<"w", "a", "r", "n">>,
                <<"i", "n", "f", "o">>, <<"d", "e", "b", "u", "g">>,
                <<"t", "r", "a", "c", "e">> }

UpperOf(c) == UpperLetters[IndexIn(c, LowerLetters)]

\* Every upper/lower-case spelling of word w.
CaseVariants(w) ==
    { [i \in 1..Len(w) |-> IF i \in up THEN UpperOf(w[i]) ELSE w[i]] :
        up \in SUBSET (1..Len(w)) }

ExtraChars == {" ", "s", "1", "\n", "U+0130", "U+212A"}

\* Near misses: a spelling with one more character, a proper prefix, and a
\* spelling with one letter replaced by a non-ASCII look-alike.
NearMisses ==
    UNION { { w \o <<c>> : c \in ExtraChars } \cup
            { <<c>> \o w : c \in ExtraChars } \cup
            { [i \in 1..Len(w) |-> UpperOf(w[i])] \o <<c>> : c \in ExtraChars } \cup
            { SubSeq(w, 1, n) : n \in 0..(Len(w) - 1) } \cup
            { [w EXCEPT ![i] = "U+0130"] : i \in { j \in 1..Len(w) : w[j] = "i" } }
          : w \in LevelWords }

OtherWords == { <<"b", "o", "g", "u", "s">>, <<"w", "a", "r", "n", "i", "n", "g">>,
                <<"o", "f", "f">>, <<"O", "F", "F">>, <<"3">>, <<"K">>,
                <<"U+212A">>, <<" ">> }

Texts == (UNION { CaseVariants(w) : w \in LevelWords }) \cup NearMisses \cup OtherWords

Indicators ==
    [kind : {"u8"}, val : U8] \cup [kind : {"usize"}, val : Usize] \cup
    [kind : {"str", "String"}, val : Texts]


(***************************************************************************)
(* The resolver on its own: one call of set_logging_level per behaviour.   *)
(***************************************************************************)
\* The process's threads: the main thread and a worker it spawned.
MainThread == "main"
Threads == {MainThread, "worker"}
NoThread == "none"
NoLogger == [filter |-> "Off", by |-> NoThread]
NoInd == [kind |-> "none", val |-> 0]

LoggerInit ==
    /\ pc = [t \in Threads |-> "idle"]
    /\ loglevel = [t \in Threads |-> "Off"]
    /\ arg = [t \in Threads |-> NoInd]
    /\ logger = NoLogger
    /\ max_level = "Off"
    /\ buf = [t \in Threads |-> <<>>]
    /\ written = [t \in Threads |-> 0]
    /\ stderr_lock = NoThread
    /\ out = <<>>
    /\ alive = TRUE
    /\ calls = <<>>
    /\ returned = <<>>
    /\ nenable = 0

InitResolve ==
    /\ indicator \in Indicators
    /\ result = Unset
    /\ style = FALSE
    /\ LoggerInit

Call_u8 ==
    /\ indicator.kind = "u8" /\ result = Unset
    /\ result' = set_logging_level_u8(indicator.val)
    /\ UNCHANGED <<indicator, loggerVars>>

Call_usize ==
    /\ indicator.kind = "usize" /\ result = Unset
    /\ result' = set_logging_level_usize(indicator.val)
    /\ UNCHANGED <<indicator, loggerVars>>

Call_str ==
    /\ indicator.kind = "str" /\ result = Unset
    /\ result' = set_logging_level_str(indicator.val)
    /\ UNCHANGED <<indicator, loggerVars>>

Call_String ==
    /\ indicator.kind = "String" /\ result = Unset
    /\ result' = set_logging_level_String(indicator.val)
    /\ UNCHANGED <<indicator, loggerVars>>

NextResolve == Call_u8 \/ Call_usize \/ Call_str \/ Call_String

SpecResolve == InitResolve /\ [][NextResolve]_vars

(***************************************************************************)
(* The format closure of set_builder.                                      *)
(***************************************************************************)
\* Display of log::Level.
LevelName(l) ==
    CASE l = "Error" -> <<"E", "R", "R", "O", "R">>
      [] l = "Warn" -> <<"W", "A", "R", "N">>
      [] l = "Info" -> <<"I", "N", "F", "O">>
      [] l = "Debug" -> <<"D", "E", "B", "U", "G">>
      [] l = "Trace" -> <<"T", "R", "A", "C", "E">>

LevelWidth == 5

\* Mutant: "{: >w}", right-justified.
PadRightJustified(s, w) ==
    IF Len(s) >= w THEN s ELSE [i \in 1..(w - Len(s)) |-> " "] \o s

\* "{: <w}": left-justified, filled with spaces up to width w, never cut.
PadLeftJustified(s, w) ==
    IF Len(s) >= w THEN s ELSE s \o [i \in 1..(w - Len(s)) |-> " "]

LevelField(l) == PadLeftJustified(LevelName(l), LevelWidth)

Digits == <<"0", "1", "2", "3", "4", "5", "6", "7", "8", "9">>

\* The decimal digits of n, zero-filled to w places (strftime %Y %m %d %H %M %S
\* for the values a wall clock takes).
RECURSIVE ZeroPad(_, _)
ZeroPad(n, w) ==
    IF w = 0 THEN <<>> ELSE ZeroPad(n \div 10, w - 1) \o <<Digits[(n % 10) + 1]>>

\* Local::now().format("%Y-%m-%dT%H:%M:%S")
Timestamp(tm) ==
    ZeroPad(tm.Y, 4) \o <<"-">> \o ZeroPad(tm.Mo, 2) \o <<"-">> \o ZeroPad(tm.D, 2)
    \o <<"T">> \o ZeroPad(tm.h, 2) \o <<":">> \o ZeroPad(tm.m, 2) \o <<":">>
    \o ZeroPad(tm.s, 2)

\* The local wall-clock instants Local::now() returns in the model.
Times == { [Y |-> 2021, Mo |-> 8, D |-> 22, h |-> 15, m |-> 49, s |-> 1],
           [Y |-> 2024, Mo |-> 12, D |-> 31, h |-> 23, m |-> 59, s |-> 59] }

LevelColor(l) ==
    CASE l = "Info" -> "ESC[32m"
      [] l = "Debug" -> "ESC[36m"
      [] l = "Trace" -> "ESC[35m"
      [] l = "Error" -> "ESC[31m"
      [] l = "Warn" -> "ESC[33m"

TimeColor == "ESC[38;2;159;80;1m"

StyleTokens == {"ESC[0m", "ESC[1m", TimeColor} \cup { LevelColor(l) : l \in Levels }

\* style.value(text): on a destination with ANSI support the text is written
\* between the style's escape sequences and a reset, otherwise as it is.
Styled(text, color, ansi) ==
    IF ansi THEN <<"ESC[0m", "ESC[1m", color>> \o text \o <<"ESC[0m">> ELSE text

\* writeln!(buf, "[{}][{}]{}", level, time, record.args())
FormatRecord(l, tm, msg, ansi) ==
    <<"[">> \o Styled(LevelField(l), LevelColor(l), ansi) \o <<"]", "[">>
    \o Styled(Timestamp(tm), TimeColor, ansi) \o <<"]">> \o msg \o <<"\n">>

Messages == { <<"o", "k">>, <<" ", "x", " ">> }

(***************************************************************************)
(* enable_logging and the log calls of the process's threads.              *)
(***************************************************************************)
EnableIndicators ==
    { [kind |-> "u8", val |-> 1], [kind |-> "u8", val |-> 0],
      [kind |-> "usize", val |-> 5], [kind |-> "str", val |-> <<"W", "a", "r", "n">>] }

Init ==
    /\ indicator = NoInd
    /\ result = Unset
    /\ style \in BOOLEAN
    /\ LoggerInit

\* enable_logging: let loglevel = self.set_logging_level(); set_builder(loglevel)
enable_logging(t, ind) ==
    /\ alive /\ pc[t] = "idle" /\ nenable < MaxEnables
    /\ loglevel' = [loglevel EXCEPT ![t] = set_logging_level(ind)]
    /\ arg' = [arg EXCEPT ![t] = ind]
    /\ pc' = [pc EXCEPT ![t] = "set_builder"]
    /\ nenable' = nenable + 1
    /\ UNCHANGED <<indicator, result, logger, max_level, buf, written, stderr_lock,
                   out, style, alive, calls, returned>>

\* Mutant: the failed initialisation is ignored (try_init with its result
\* dropped) and the caller goes on to set the maximum level.
InitIgnored(t) ==
    /\ pc' = [pc EXCEPT ![t] = "set_max_level"]
    /\ UNCHANGED <<logger, max_level, alive>>

\* Builder::init() of a built logger when the process already has one:
\* try_init() returns Err and init() panics on it; nothing is caught here. The
\* panic ends the calling thread; it ends the process when the thread is the
\* main thread, and in any thread when the build aborts on panic.
InitPanics(t) ==
    /\ pc' = [pc EXCEPT ![t] = "panicked"]
    /\ alive' \in (IF t = MainThread THEN {FALSE} ELSE {TRUE, FALSE})
    /\ UNCHANGED <<logger, max_level>>

\* Mutant: the last caller's logger replaces the installed one.
set_builder_LastWriterWins(t) ==
    /\ alive /\ pc[t] = "set_builder"
    /\ logger' = [filter |-> loglevel[t], by |-> t]
    /\ pc' = [pc EXCEPT ![t] = "set_max_level"]
    /\ UNCHANGED <<indicator, result, loglevel, max_level, alive, buf, written,
                   stderr_lock, out, style, calls, returned, arg, nenable>>

\* set_builder, up to log::set_boxed_logger inside Builder::init(): the first
\* caller's logger (format closure and filter(None, loglevel)) becomes the
\* process's logger; every later caller fails.
set_builder(t) ==
    /\ alive /\ pc[t] = "set_builder"
    /\ IF logger = NoLogger
         THEN /\ logger' = [filter |-> loglevel[t], by |-> t]
              /\ pc' = [pc EXCEPT ![t] = "set_max_level"]
              /\ UNCHANGED <<max_level, alive>>
         ELSE InitPanics(t)
    /\ UNCHANGED <<indicator, result, loglevel, buf, written, stderr_lock, out,
                   style, calls, returned, arg, nenable>>

\* The rest of Builder::init() after set_boxed_logger succeeded:
\* log::set_max_level(logger.filter()), then enable_logging returns.
set_max_level(t) ==
    /\ alive /\ pc[t] = "set_max_level"
    /\ max_level' = loglevel[t]
    /\ pc' = [pc EXCEPT ![t] = "idle"]
    /\ returned' = Append(returned, arg[t])
    /\ UNCHANGED <<indicator, result, loglevel, logger, buf, written, stderr_lock, out,
                   style, alive, calls, arg, nenable>>

\* Mutant: the comparison is strict.
Matches_Strict(lvl, filter) == LevelNum(lvl) < LevelNum(filter)

\* The level test of filter(None, loglevel): a record passes when its level is
\* not above the filter's.
Matches(lvl, filter) == LevelNum(lvl) <= LevelNum(filter)

\* A log call (log::log! and the installed logger's log()): the record is dropped
\* unless it passes max_level and the logger's filter; a record that passes is
\* formatted, with the time tm read from the clock, into the thread's buffer.
log(t, lvl, msg, tm) ==
    /\ alive /\ pc[t] = "idle" /\ Len(calls) < MaxLogs
    /\ calls' = Append(calls, [level |-> lvl, msg |-> msg, time |-> tm,
                               inst |-> IF returned = <<>> THEN NoInd ELSE returned[1]])
    /\ IF /\ Matches(lvl, max_level)
          /\ logger # NoLogger
          /\ Matches(lvl, logger.filter)
         THEN /\ buf' = [buf EXCEPT ![t] = FormatRecord(lvl, tm, msg, style)]
              /\ pc' = [pc EXCEPT ![t] = "print"]
         ELSE UNCHANGED <<buf, pc>>
    /\ UNCHANGED <<indicator, result, loglevel, logger, max_level, written, stderr_lock,
                   out, style, alive, returned, arg, nenable>>

\* Mutant: the buffer is written without waiting for the lock.
print_unlocked(t) ==
    /\ alive /\ pc[t] = "print"
    /\ stderr_lock' = t
    /\ pc' = [pc EXCEPT ![t] = "write"]
    /\ UNCHANGED <<indicator, result, loglevel, logger, max_level, buf, written, out,
                   style, alive, calls, returned, arg, nenable>>

\* Printing the buffer starts by taking the lock of stderr.
print_lock(t) ==
    /\ alive /\ pc[t] = "print" /\ stderr_lock = NoThread
    /\ stderr_lock' = t
    /\ pc' = [pc EXCEPT ![t] = "write"]
    /\ UNCHANGED <<indicator, result, loglevel, logger, max_level, buf, written, out,
                   style, alive, calls, returned, arg, nenable>>

ChunkEnd(t) ==
    IF written[t] + WriteChunk < Len(buf[t]) THEN written[t] + WriteChunk ELSE Len(buf[t])

\* write_all of the buffer, one write at a time; after the last one the lock is
\* released and the buffer cleared.
print_write(t) ==
    /\ alive /\ pc[t] = "write"
    /\ out' = out \o SubSeq(buf[t], written[t] + 1, ChunkEnd(t))
    /\ IF ChunkEnd(t) = Len(buf[t])
         THEN /\ written' = [written EXCEPT ![t] = 0]
              /\ buf' = [buf EXCEPT ![t] = <<>>]
              /\ stderr_lock' = NoThread
              /\ pc' = [pc EXCEPT ![t] = "idle"]
         ELSE /\ written' = [written EXCEPT ![t] = ChunkEnd(t)]
              /\ UNCHANGED <<buf, stderr_lock, pc>>
    /\ UNCHANGED <<indicator, result, loglevel, logger, max_level, style, alive,
                   calls, returned, arg, nenable>>

\* One step of the process: threads T calling enable_logging with indicators
\* from I and logging records (level, message, time of the clock) from R.
Step(T, I, R) ==
    \/ \E t \in T, ind \in I : enable_logging(t, ind)
    \/ \E t \in T : set_builder(t)
    \/ \E t \in T : set_max_level(t)
    \/ \E t \in T, r \in R : log(t, r.level, r.msg, r.time)
    \/ \E t \in T : print_lock(t)
    \/ \E t \in T : print_write(t)

\* Both threads install and log; the records differ in their level.
OneTime == CHOOSE tm \in Times : tm.Y = 2021
Records == [level : Levels, msg : {<<"o", "k">>}, time : {OneTime}]

Next == Step(Threads, EnableIndicators, Records)

Spec == Init /\ [][Next]_vars

\* The main thread installs a logger and logs records of every level, message
\* and time.
FormatRecords == [level : Levels, msg : Messages, time : Times]

NextFormat == Step({MainThread}, EnableIndicators, FormatRecords)

SpecFormat == Init /\ [][NextFormat]_vars

(***************************************************************************)
(* Vocabulary of the properties, stated independently of the code above.   *)
(***************************************************************************)
IsInteger(ind) == ind.kind \in {"u8", "usize"}
IsText(ind) == ind.kind \in {"str", "String"}

\* The severities a minimum severity lets through, Error being the most severe.
AdmittedBy(l) ==
    CASE l = "Error" -> {"Error"}
      [] l = "Warn" -> {"Error", "Warn"}
      [] l = "Info" -> {"Error", "Warn", "Info"}
      [] l = "Debug" -> {"Error", "Warn", "Info", "Debug"}
      [] l = "Trace" -> {"Error", "Warn", "Info", "Debug", "Trace"}

\* The values of the indicator's integer type that the model draws from.
DomainOf(ind) == IF ind.kind = "u8" THEN U8 ELSE Usize

ResolveAs(ind, v) == set_logging_level([kind |-> ind.kind, val |-> v])

\* Text s spells word w (given in lower case) in some mix of cases.
Spells(s, w) ==
    /\ Len(s) = Len(w)
    /\ \A i \in 1..Len(w) : s[i] = w[i] \/ s[i] = UpperOf(w[i])

LevelOfWord(w) ==
    CASE w = <<"e", "r", "r", "o", "r">> -> "Error"
      [] w = <<"w", "a", "r", "n">> -> "Warn"
      [] w = <<"i", "n", "f", "o">> -> "Info"
      [] w = <<"d", "e", "b", "u", "g">> -> "Debug"
      [] w = <<"t", "r", "a", "c", "e">> -> "Trace"

C3_TestMapping ==
    (result # Unset /\ indicator.kind = "u8") =>
        /\ indicator.val = 0 => result = "Info"
        /\ indicator.val = 1 => result = "Debug"
        /\ indicator.val = 2 => result = "Trace"
        /\ indicator.val > 2 => result = "Trace"

\* C4: for a text indicator set_logging_level returns the level whose name the
\* text spells in any mix of cases, and Info for every other text; the &str and
\* String implementations agree.
C4_TextLevels ==
    (result # Unset /\ IsText(indicator)) =>
        /\ \A w \in LevelWords : Spells(indicator.val, w) => result = LevelOfWord(w)
        /\ (\A w \in LevelWords : ~Spells(indicator.val, w)) => result = "Info"
        /\ set_logging_level_str(indicator.val) = set_logging_level_String(indicator.val)

C4_Witness ==
    /\ indicator = [kind |-> "String", val |-> <<"W", "a", "R", "n">>]
    /\ result = "Warn"

NewlinesIn(s) == { i \in 1..Len(s) : s[i] = "\n" }

LastBefore(s, i) ==
    LET before == { j \in NewlinesIn(s) : j < i }
    IN  IF before = {} THEN 0 ELSE CHOOSE j \in before : \A k \in before : k <= j

\* The complete lines of s, each without its newline.
CompleteLines(s) == { SubSeq(s, LastBefore(s, i) + 1, i - 1) : i \in NewlinesIn(s) }

\* What follows the last newline of s.
Unfinished(s) == SubSeq(s, LastBefore(s, Len(s) + 1) + 1, Len(s))

InFlight == { t \in Threads : pc[t] \in {"print", "write"} }

\* The calls that were made after enable_logging(inst) had returned with a
\* severity at or above the minimum set_logging_level(inst).
AdmittedCalls ==
    { i \in 1..Len(calls) :
        /\ calls[i].inst # NoInd
        /\ calls[i].level \in AdmittedBy(set_logging_level(calls[i].inst)) }

C6_InstalledOnce ==
    /\ logger = NoLogger /\ max_level = "Off"
    /\ [][ /\ logger # NoLogger => logger' = logger
           /\ logger' # logger =>
                \E t \in Threads : /\ pc[t] = "set_builder"
                                   /\ logger'.filter = set_logging_level(arg[t])
           /\ max_level # "Off" => max_level' = max_level
           /\ max_level' # max_level => max_level' = logger.filter ]_vars

C6_Witness ==
    /\ alive
    /\ logger.by = MainThread
    /\ pc["worker"] = "panicked"
    /\ loglevel["worker"] # logger.filter
    /\ max_level = logger.filter
    /\ Len(calls) > 0

NoMixedConfiguration == max_level \in {"Off", logger.filter}

\* C8: an enable_logging call that finds a logger installed ends in a panic and
\* never resumes, leaving the logger and the maximum level as they were; the
\* maximum level in force is never another call's than the logger's.
C8_FailurePropagates ==
    /\ NoMixedConfiguration
    /\ [][ /\ NoMixedConfiguration'
           /\ \A t \in Threads :
                /\ (pc[t] = "set_builder" /\ pc'[t] # "set_builder" /\ logger # NoLogger) =>
                      pc'[t] = "panicked" /\ logger' = logger /\ max_level' = max_level
                /\ pc[t] = "panicked" => pc'[t] = "panicked" ]_vars

C8_Witness ==
    /\ ~alive
    /\ pc[MainThread] = "panicked"
    /\ logger.by = "worker"
    /\ loglevel[MainThread] # logger.filter
    /\ max_level = logger.filter

\* The text of a line without the escape sequences of its styling.
Visible(line) == SelectSeq(line, LAMBDA c : c \notin StyleTokens)

Tag(l) ==
    CASE l = "Error" -> <<"E", "R", "R", "O", "R">>
      [] l = "Warn" -> <<"W", "A", "R", "N", " ">>
      [] l = "Info" -> <<"I", "N", "F", "O", " ">>
      [] l = "Debug" -> <<"D", "E", "B", "U", "G">>
      [] l = "Trace" -> <<"T", "R", "A", "C", "E">>

TimeText(tm) ==
    IF tm.Y = 2021
      THEN <<"2", "0", "2", "1", "-", "0", "8", "-", "2", "2", "T",
             "1", "5", ":", "4", "9", ":", "0", "1">>
      ELSE <<"2", "0", "2", "4", "-", "1", "2", "-", "3", "1", "T",
             "2", "3", ":", "5", "9", ":", "5", "9">>

IsDigit(c) == c \in {"0", "1", "2", "3", "4", "5", "6", "7", "8", "9"}

\* YYYY-MM-DDTHH:MM:SS
IsTimestamp(s) ==
    /\ Len(s) = 19
    /\ s[5] = "-" /\ s[8] = "-" /\ s[11] = "T" /\ s[14] = ":" /\ s[17] = ":"
    /\ \A i \in (1..19) \ {5, 8, 11, 14, 17} : IsDigit(s[i])

\* C7: the text of every output line is '[' LEVEL ']' '[' TIMESTAMP ']' MESSAGE
\* for a record that was logged: LEVEL its severity name left-justified in five
\* characters, TIMESTAMP nineteen characters YYYY-MM-DDTHH:MM:SS, MESSAGE its
\* message as given; and the output ends with a newline when no write is under
\* way.
C7_LineShape ==
    /\ \A line \in CompleteLines(out) :
         \E i \in 1..Len(calls) :
            /\ Visible(line) = <<"[">> \o Tag(calls[i].level) \o <<"]", "[">>
                               \o TimeText(calls[i].time) \o <<"]">> \o calls[i].msg
            /\ Len(Visible(line)) = 28 + Len(calls[i].msg)
            /\ IsTimestamp(SubSeq(Visible(line), 9, 27))
    /\ (\A t \in Threads : pc[t] # "write") => Unfinished(out) = <<>>

C7_Witness ==
    /\ ~style
    /\ out = <<"[", "W", "A", "R", "N", " ", "]", "[", "2", "0", "2", "4", "-", "1", "2",
               "-", "3", "1", "T", "2", "3", ":", "5", "9", ":", "5", "9", "]",
               " ", "x", " ", "\n">>

\* C10: under every interleaving of the threads the output consists of whole
\* formatted lines of logged records, followed at most by the part already
\* written of the line of the one thread that holds stderr.
C10_WholeLines ==
    /\ \A line \in CompleteLines(out) :
         \E i \in 1..Len(calls) :
            line \o <<"\n">> = FormatRecord(calls[i].level, calls[i].time, calls[i].msg, style)
    /\ Unfinished(out) =
         IF stderr_lock = NoThread THEN <<>>
         ELSE SubSeq(buf[stderr_lock], 1, written[stderr_lock])
    /\ Cardinality({ t \in Threads : pc[t] = "write" }) <= 1

C10_Witness ==
    /\ pc[MainThread] = "write" /\ written[MainThread] > 0
    /\ pc["worker"] = "print"
    /\ Cardinality(NewlinesIn(out)) = 0

====
